---- MODULE Spec2Model ----
(***************************************************************************)
(* pancake-robot: the asynchronous accelerometer fusion program            *)
(* (code/asincroAccel.py) and the DRV8833 motor test loop                  *)
(* (code/motorContol.py).                                                  *)
(*                                                                         *)
(* Numbers.  Python floats are modelled as fixed-point integers with       *)
(* denominator DEN: the float v is the integer v * DEN.  Every quotient    *)
(* the program computes on the modelled inputs (integer readings divided   *)
(* by 2.0 or 32.0, int16 counts divided by 16384.0, sums divided by 2.0)   *)
(* is a multiple of 1/DEN, so the integer quotients below are exact, as    *)
(* the IEEE double quotients are.                                          *)
(*                                                                         *)
(* uasyncio.  The scheduler is cooperative: a task runs from one await to  *)
(* the next without interruption.  cur names the running task ("sched"     *)
(* when the event loop is choosing).  The event loop keeps its queue in     *)
(* order of wake time and runs the task that was due first; the order      *)
(* among tasks due at the same instant is left open.  wake[t] is the time  *)
(* in ms until t is due, negative once t is overdue.  Time only passes     *)
(* while the loop idles (nothing is due) or inside a blocking sensor       *)
(* transaction.                                                            *)
(***************************************************************************)
EXTENDS Integers, Sequences, FiniteSets, TLC

\* ---------------------------------------------------------------- bounds
\* Length of the observed run in ms (the "simulated 10-second run").
RunMs == 10000
\* The fusion cycle tag wraps at MaxCycle.
MaxCycle == 2
\* Passes of the motor test loop that are told apart.
MaxPass == 3
\* Operator interrupts the motor program can receive.
MaxInterrupts == 2

\* ------------------------------------------------------ program constants
SCALE_ACCEL == 16384
NORMALIZATION_RANGE_G == 2
NORMALIZATION_RANGE_V1_RAW == 32
BLINK_PERIOD_MS == 500
FUSION_SLEEP_MS == 200

DEN == 4 * SCALE_ACCEL

None == [tag |-> "None"]

Min(a, b) == IF a < b THEN a ELSE b
Max(a, b) == IF a > b THEN a ELSE b

\* ------------------------------------------------------------ sensor data
\* MPU6050.get_all_data_scaled: the accelerometer triple of the 14-byte
\* burst, each int16 count divided by SCALE_ACCEL (count / SCALE_ACCEL is the
\* fixed-point integer count * DEN / SCALE_ACCEL); the all-zero tuple when
\* the bus transaction raises OSError.  (Temperature and gyro are unpacked
\* by the code and never read by the fusion; they are left out.)
get_all_data_scaled(counts, oserror) ==
    IF oserror
    THEN <<0, 0, 0>>
    ELSE << counts[1] * (DEN \div SCALE_ACCEL),
            counts[2] * (DEN \div SCALE_ACCEL),
            counts[3] * (DEN \div SCALE_ACCEL) >>

\* externalAcelerometers: None for an absent device, else the dict.
externalAcelerometers(sensor_device, counts, oserror) ==
    IF sensor_device = None
    THEN None
    ELSE LET t == get_all_data_scaled(counts, oserror)
         IN [tag |-> "dict", accel_x |-> t[1], accel_y |-> t[2], accel_z |-> t[3]]

\* getInternalAccelerometerData: None for an absent device, else the integer
\* triple the device method returned, tagged by the method used.
getInternalAccelerometerData(accel_obj, has_filtered_method, xyz) ==
    IF accel_obj = None
    THEN None
    ELSE [tag |-> "dict", accel_x |-> xyz[1], accel_y |-> xyz[2], accel_z |-> xyz[3],
          units |-> IF has_filtered_method THEN "g-force" ELSE "raw"]

\* ----------------------------------------------------------------- fusion
\* Mutant of SensorsMissing: `and` for `or`.
SensorsMissing_both(int_data, ext_data) == int_data = None /\ ext_data = None

\* The guard of line 123.
SensorsMissing(int_data, ext_data) == int_data = None \/ ext_data = None

\* Mutant of int_norm_factor: the two divisors exchanged.
int_norm_factor_swapped(int_data) ==
    IF int_data.units = "g-force" THEN NORMALIZATION_RANGE_V1_RAW ELSE NORMALIZATION_RANGE_G

\* Lines 128-132.
int_norm_factor(int_data) ==
    IF int_data.units = "g-force" THEN NORMALIZATION_RANGE_G ELSE NORMALIZATION_RANGE_V1_RAW

\* Lines 133-135: an integer reading divided by the float factor.
int_norm(x, factor) == (x * DEN) \div factor

\* Lines 138-140.
ext_norm(a) == a \div NORMALIZATION_RANGE_G

\* Mutant of Clamp: the lower limit forgotten.
Clamp_noLower(v) == Min(DEN, v)

\* max(-1.0, min(1.0, v)) of lines 143-145.
Clamp(v) == Max(-DEN, Min(DEN, v))

\* Lines 143-145: the average of the two normalised values, clamped.
avg(int_n, ext_n) == Clamp((int_n + ext_n) \div 2)

\* Lines 128-147: the dict returned when both samples are present.
FusedVector(int_data, ext_data) ==
    LET f == int_norm_factor(int_data)
    IN [tag |-> "dict",
        norm_x |-> avg(int_norm(int_data.accel_x, f), ext_norm(ext_data.accel_x)),
        norm_y |-> avg(int_norm(int_data.accel_y, f), ext_norm(ext_data.accel_y)),
        norm_z |-> avg(int_norm(int_data.accel_z, f), ext_norm(ext_data.accel_z))]

\* ------------------------------------------------------------ the devices
\* A device handle carries the readings its read method can return.
\* pyb.Accel on the board: xyz() gives 6-bit signed counts, filtered_xyz()
\* the sum of four of them; a board at rest and a board being shaken.
BoardAccelReadings == { <<0, 0, 16>>, <<124, -128, 5>> }
\* The MPU-6050 on the board: int16 counts, 16384 counts per g.
BoardMPUCounts == { <<0, 0, 16384>>, <<32767, -32768, 100>> }
BoardAccel == [tag |-> "Accel", readings |-> BoardAccelReadings]
BoardMPU == [tag |-> "MPU6050", readings |-> BoardMPUCounts]

\* Devices handed to the fusion loop directly (test doubles): one fixed
\* reading each, magnitudes far outside the sensors' ranges included.
StubAccelReadings ==
    { <<x, y, z>> : x \in {-128, -4, 0, 4, 8, 124, 5000}, y \in {-3000, 0, 3}, z \in {0, 64} }
StubMPUCounts ==
    { <<x, y, z>> : x \in {-700000, -16384, 0, 16384, 32767}, y \in {0, 700000}, z \in {0, 16384} }
StubAccels == { [tag |-> "Accel", readings |-> {r}] : r \in StubAccelReadings }
StubMPUs == { [tag |-> "MPU6050", readings |-> {c}] : c \in StubMPUCounts }

\* The blocking duration of one sensor transaction, in ms: fixed for a run.
\* 300 ms is a pathologically slow bus.
ReadMsChoices == {0, 8, 20, 300}

\* What an OSError of the I2C layer prints as.
Errnos == {"[Errno 5] EIO"}
OSError(e) == [tag |-> "OSError", errno |-> e]
Unset == [tag |-> "unset"]

\* ------------------------------------------------------------------ state
Tasks == {"main", "blink", "int", "ext"}
ReadTasks == {"int", "ext"}

VARIABLES
    cur,                  \* the running task, "sched" (event loop), "exit"
    status,               \* per task: "none", "queued", "waiting", "done"
    wake,                 \* per task: ms until a queued task is due (< 0: overdue)
    mpc,                  \* where main() is
    tpc,                  \* where each read wrapper is: "read", "yielded"
    internal_accel, has_filtered_method, external_mpu,   \* main's locals
    data,                 \* per read wrapper: its local `data` / return value
    gather_pending,       \* sub-tasks gather still waits for
    gather_exc,           \* the exception gather re-raises, or None
    int_data, ext_data,   \* locals of get_averaged_accel_data_async
    fused_data,           \* main's local
    console,              \* the last line printed, as its pieces
    led,                  \* LED 1
    toggles,              \* led.toggle() calls during the observed run
    now,                  \* ms since the start of the observed run, <= RunMs
    readMs,               \* blocking duration of one sensor transaction
    cycle,                \* tag of the current fusion cycle
    task_cycle,           \* per read wrapper: the cycle that created it
    done_cycle,           \* the last cycle whose result (vector or None) was computed
    bus_fault,            \* this cycle's MPU-6050 transaction raised OSError
    init_failed           \* bring-up raised
VARIABLES
    mo_pc, mo_phase,      \* motor program: statement within a phase, phase 1..4 of the loop
    mo_speed, mo_direction,   \* arguments of the running motorControl call
    mo_sleep,             \* seconds left of the running time.sleep
    mo_int_at,            \* where the first KeyboardInterrupt arrived
    pwm_in1, pwm_in2,     \* duty cycle (percent) of AIN1 and AIN2
    mo_mode,              \* "loop", "handler", "exited"
    mo_pass,              \* passes of the while loop, capped
    interrupts            \* KeyboardInterrupts delivered

accelVars == << cur, status, wake, mpc, tpc, internal_accel, has_filtered_method,
                external_mpu, data, gather_pending, gather_exc, int_data, ext_data,
                fused_data, console, led, toggles, now, readMs, cycle, task_cycle,
                done_cycle, bus_fault, init_failed >>
motorVars == << mo_pc, mo_phase, mo_speed, mo_direction, mo_sleep, mo_int_at, pwm_in1, pwm_in2,
                mo_mode, mo_pass, interrupts >>
vars == << accelVars, motorVars >>

\* ------------------------------------------------------------- event loop
Due(t) == status[t] = "queued" /\ wake[t] <= 0

\* dt ms pass: queued tasks come closer to their wake time.
Elapse(w, dt) == [t \in Tasks |-> IF status[t] = "queued" THEN w[t] - dt ELSE w[t]]
Clock(dt) == Min(RunMs, now + dt)

\* The event loop pops t: t is due, and no queued task was due before it.
Pops(t) ==
    /\ cur = "sched"
    /\ Due(t)
    /\ \A u \in Tasks : status[u] = "queued" => wake[t] <= wake[u]

\* main() has the processor: it keeps it from the step before, or is popped.
MainRuns == cur = "main" \/ Pops("main")

\* Nothing is due: the event loop waits for the earliest wake time.
idle ==
    /\ cur = "sched"
    /\ \A t \in Tasks : ~Due(t)
    /\ \E t \in Tasks :
         /\ status[t] = "queued"
         /\ \A u \in Tasks : status[u] = "queued" => wake[t] <= wake[u]
         /\ wake' = Elapse(wake, wake[t])
         /\ now' = Clock(wake[t])
    /\ UNCHANGED << cur, status, mpc, tpc, internal_accel, has_filtered_method,
                    external_mpu, data, gather_pending, gather_exc, int_data, ext_data,
                    fused_data, console, led, toggles, readMs, cycle, task_cycle, done_cycle,
                    bus_fault, init_failed >>
    /\ UNCHANGED motorVars

\* await uasyncio.sleep_ms(ms) by task t: requeued, due in ms.
Sleep(t, ms) ==
    /\ status' = [status EXCEPT ![t] = "queued"]
    /\ cur' = "sched"
    /\ wake' = [wake EXCEPT ![t] = ms]

\* Groups of variables, for UNCHANGED.
handles == << internal_accel, has_filtered_method, external_mpu >>
gather == << gather_pending, gather_exc >>
fusionLocals == << int_data, ext_data >>
blinker == << led, toggles >>

\* ------------------------------------------------------------------ gather
\* Mutant of GatherWake: the waiter is scheduled by the first sub-task that ends.
GatherWake_first(pending, er) == TRUE

\* uasyncio.gather(a, b), return_exceptions=False: its waiter is scheduled
\* when a sub-task raises, or when the last sub-task returns.
GatherWake(pending, er) == er # None \/ pending = 1

\* Read wrapper t ends after dt ms of blocking work, returning (er = None) or
\* raising er; gather's done-callback runs if gather still waits.
Finish(t, er, dt) ==
    /\ cur' = "sched"
    /\ now' = Clock(dt)
    /\ IF status["main"] = "waiting"
       THEN /\ gather_exc' = IF er # None THEN er ELSE gather_exc
            /\ gather_pending' = IF er # None THEN gather_pending ELSE gather_pending - 1
            /\ status' = [status EXCEPT ![t] = "done",
                                        !["main"] = IF GatherWake(gather_pending, er)
                                                    THEN "queued" ELSE @]
            /\ wake' = [Elapse(wake, dt) EXCEPT ![t] = 0, !["main"] = 0]
       ELSE /\ UNCHANGED gather
            /\ status' = [status EXCEPT ![t] = "done"]
            /\ wake' = [Elapse(wake, dt) EXCEPT ![t] = 0]

\* Read wrapper t holds its data after dt ms of blocking work and yields
\* (await uasyncio.sleep_ms(0)).
YieldAfter(t, dt) ==
    /\ cur' = "sched"
    /\ now' = Clock(dt)
    /\ wake' = [Elapse(wake, dt) EXCEPT ![t] = 0]
    /\ tpc' = [tpc EXCEPT ![t] = "yielded"]
    /\ UNCHANGED << status, gather >>

\* ------------------------------------------------- the two read wrappers
\* get_internal_data_async, lines 85-86: the blocking read, then the yield.
\* The device method returns a reading or raises OSError.
get_internal_data_async_read ==
    /\ Pops("int") /\ tpc["int"] = "read"
    /\ \/ /\ internal_accel = None
          /\ data' = [data EXCEPT !["int"] =
                        getInternalAccelerometerData(internal_accel, has_filtered_method, <<0, 0, 0>>)]
          /\ YieldAfter("int", 0)
       \/ /\ internal_accel # None
          /\ \E xyz \in internal_accel.readings :
                data' = [data EXCEPT !["int"] =
                           getInternalAccelerometerData(internal_accel, has_filtered_method, xyz)]
          /\ YieldAfter("int", readMs)
       \/ /\ internal_accel # None
          /\ \E e \in Errnos :
                /\ data' = [data EXCEPT !["int"] = OSError(e)]
                /\ Finish("int", OSError(e), readMs)
          /\ UNCHANGED tpc
    /\ UNCHANGED << mpc, handles, fusionLocals, fused_data, console, blinker, readMs,
                    cycle, task_cycle, done_cycle, bus_fault, init_failed >>
    /\ UNCHANGED motorVars

\* get_internal_data_async, line 87: return data.  (A wrapper gather no
\* longer waits for returns its data to nobody.)
get_internal_data_async_return ==
    /\ Pops("int") /\ tpc["int"] = "yielded"
    /\ Finish("int", None, 0)
    /\ tpc' = [tpc EXCEPT !["int"] = "returned"]
    /\ data' = IF status["main"] = "waiting" THEN data ELSE [data EXCEPT !["int"] = Unset]
    /\ UNCHANGED << mpc, handles, fusionLocals, fused_data, console, blinker, readMs,
                    cycle, task_cycle, done_cycle, bus_fault, init_failed >>
    /\ UNCHANGED motorVars

\* get_external_data_async, lines 92-93.  The bus transaction either
\* delivers counts or raises OSError inside get_all_data_scaled, which
\* swallows it.
get_external_data_async_read ==
    /\ Pops("ext") /\ tpc["ext"] = "read"
    /\ \/ /\ external_mpu = None
          /\ data' = [data EXCEPT !["ext"] = externalAcelerometers(external_mpu, <<0, 0, 0>>, FALSE)]
          /\ YieldAfter("ext", 0)
          /\ UNCHANGED bus_fault
       \/ /\ external_mpu # None
          /\ \E counts \in external_mpu.readings, oserror \in BOOLEAN :
                /\ data' = [data EXCEPT !["ext"] = externalAcelerometers(external_mpu, counts, oserror)]
                /\ bus_fault' = oserror
          /\ YieldAfter("ext", readMs)
    /\ UNCHANGED << mpc, handles, fusionLocals, fused_data, console, blinker, readMs,
                    cycle, task_cycle, done_cycle, init_failed >>
    /\ UNCHANGED motorVars

\* get_external_data_async, line 94: return data.
get_external_data_async_return ==
    /\ Pops("ext") /\ tpc["ext"] = "yielded"
    /\ Finish("ext", None, 0)
    /\ tpc' = [tpc EXCEPT !["ext"] = "returned"]
    /\ data' = IF status["main"] = "waiting" THEN data ELSE [data EXCEPT !["ext"] = Unset]
    /\ UNCHANGED << mpc, handles, fusionLocals, fused_data, console, blinker, readMs,
                    cycle, task_cycle, done_cycle, bus_fault, init_failed >>
    /\ UNCHANGED motorVars

\* ------------------------------------------------------------- blink_led
\* Mutant of blink_led: the `while True` forgotten, one toggle and the task ends.
blink_led_once ==
    /\ Pops("blink")
    /\ led' = ~led
    /\ toggles' = IF now < RunMs THEN toggles + 1 ELSE toggles
    /\ status' = [status EXCEPT !["blink"] = "done"]
    /\ cur' = "sched"
    /\ UNCHANGED << wake, mpc, tpc, handles, data, gather, fusionLocals, fused_data, console,
                    now, readMs, cycle, task_cycle, done_cycle, bus_fault, init_failed >>
    /\ UNCHANGED motorVars

\* Lines 155-157: toggle, then sleep one period.
blink_led ==
    /\ Pops("blink")
    /\ led' = ~led
    /\ toggles' = IF now < RunMs THEN toggles + 1 ELSE toggles
    /\ Sleep("blink", BLINK_PERIOD_MS)
    /\ UNCHANGED << mpc, tpc, handles, data, gather, fusionLocals, fused_data, console,
                    now, readMs, cycle, task_cycle, done_cycle, bus_fault, init_failed >>
    /\ UNCHANGED motorVars

\* ------------------------------------------------------------------ main()
\* Mutant of AfterFatalInit: the `return` forgotten, main() goes on to line 189.
AfterFatalInit_fallthrough == "start"

\* Where main() continues after the except clause of lines 184-186: `return`.
AfterFatalInit == "returned"

\* Lines 184-186: any exception of the bring-up is caught here.
FatalInit ==
    /\ init_failed' = TRUE
    /\ console' = << "FATAL ERROR during initialization:" >>
    /\ mpc' = AfterFatalInit

mainFrame ==
    /\ cur' = "main"
    /\ UNCHANGED << status, wake, tpc, data, gather, fusionLocals, fused_data, blinker,
                    now, readMs, cycle, task_cycle, done_cycle, bus_fault >>
    /\ UNCHANGED motorVars

\* Lines 172-174: pyb.Accel() and the hasattr probe, or pyb.Accel() raises.
main_init_internal ==
    /\ MainRuns /\ mpc = "init_internal"
    /\ \/ /\ internal_accel' = BoardAccel
          /\ has_filtered_method' \in BOOLEAN
          /\ console' = << "Internal accelerometer initialized." >>
          /\ mpc' = "init_i2c"
          /\ UNCHANGED << external_mpu, init_failed >>
       \/ /\ FatalInit
          /\ UNCHANGED handles
    /\ mainFrame

\* Lines 177-180: the bus and its scan; 0x68 absent from the scan raises
\* OSError, as a failing pyb.I2C does.
main_init_i2c ==
    /\ MainRuns /\ mpc = "init_i2c"
    /\ \/ /\ mpc' = "init_mpu"
          /\ UNCHANGED << console, init_failed >>
       \/ FatalInit
    /\ UNCHANGED handles
    /\ mainFrame

\* Lines 181-182: MPU6050(i2c); its wake-up write may raise OSError.
main_init_mpu ==
    /\ MainRuns /\ mpc = "init_mpu"
    /\ \/ /\ external_mpu' = BoardMPU
          /\ console' = << "External MPU-6050 initialized." >>
          /\ mpc' = "start"
          /\ UNCHANGED << internal_accel, has_filtered_method, init_failed >>
       \/ /\ FatalInit
          /\ UNCHANGED handles
    /\ mainFrame

\* Lines 189-195: the banner, and create_task(blink_led(led, 500)).
main_create_blink ==
    /\ MainRuns /\ mpc = "start"
    /\ console' = << "Starting sensor fusion loop..." >>
    /\ status' = [status EXCEPT !["blink"] = "queued"]
    /\ wake' = [wake EXCEPT !["blink"] = 0]
    /\ mpc' = "call"
    /\ cur' = "main"
    /\ UNCHANGED << tpc, handles, data, gather, fusionLocals, fused_data, blinker,
                    now, readMs, cycle, task_cycle, done_cycle, bus_fault, init_failed >>
    /\ UNCHANGED motorVars

\* Lines 198-200 and 114-118: the loop calls get_averaged_accel_data_async,
\* which hands both wrappers to gather and waits.
main_call_gather ==
    /\ MainRuns /\ mpc = "call"
    /\ cycle' = (cycle + 1) % MaxCycle
    /\ task_cycle' = [t \in ReadTasks |-> cycle']
    /\ status' = [status EXCEPT !["int"] = "queued", !["ext"] = "queued", !["main"] = "waiting"]
    /\ wake' = [wake EXCEPT !["int"] = 0, !["ext"] = 0]
    /\ tpc' = [t \in ReadTasks |-> "read"]
    /\ data' = [t \in ReadTasks |-> Unset]
    /\ gather_pending' = 2
    /\ gather_exc' = None
    /\ int_data' = Unset /\ ext_data' = Unset
    /\ fused_data' = Unset
    /\ bus_fault' = FALSE
    /\ mpc' = "gather"
    /\ cur' = "sched"
    /\ UNCHANGED << handles, console, blinker, now, readMs, done_cycle, init_failed >>
    /\ UNCHANGED motorVars

\* Mutant of Caught: the try/except around gather left out.
Caught_nothing(er) == FALSE

\* Line 119: the except clause takes OSError only.
Caught(er) == er.tag = "OSError"

\* Lines 114-125: gather returns both results or re-raises; OSError and a
\* missing sample each end the call with None.  The finished wrappers are
\* dropped with gather's result list.
fusion_after_gather ==
    /\ MainRuns /\ mpc = "gather"
    /\ data' = [t \in ReadTasks |-> IF status[t] = "done" THEN Unset ELSE data[t]]
    /\ IF gather_exc # None
       THEN /\ IF Caught(gather_exc)
               THEN /\ console' = << "Sensor read error:", gather_exc.errno >>
                    /\ fused_data' = None
                    /\ mpc' = "report"
                    /\ done_cycle' = cycle
               ELSE /\ mpc' = "raised"
                    /\ UNCHANGED << console, fused_data, done_cycle >>
            /\ UNCHANGED fusionLocals
       ELSE /\ int_data' = data["int"]
            /\ ext_data' = data["ext"]
            /\ IF SensorsMissing(data["int"], data["ext"])
               THEN /\ console' = << "Error reading one or more sensors." >>
                    /\ fused_data' = None
                    /\ mpc' = "report"
                    /\ done_cycle' = cycle
               ELSE /\ mpc' = "normalize"
                    /\ UNCHANGED << console, fused_data, done_cycle >>
    /\ cur' = "main"
    /\ UNCHANGED << status, wake, tpc, handles, gather, blinker, now, readMs,
                    cycle, task_cycle, bus_fault, init_failed >>
    /\ UNCHANGED motorVars

\* Lines 128-147: normalise, average, clamp.  Subscripting None raises
\* TypeError, which nothing in the program catches.
fusion_normalize ==
    /\ MainRuns /\ mpc = "normalize"
    /\ IF int_data = None \/ ext_data = None
       THEN /\ mpc' = "raised"
            /\ UNCHANGED << fused_data, done_cycle >>
       ELSE /\ fused_data' = FusedVector(int_data, ext_data)
            /\ mpc' = "report"
            /\ done_cycle' = cycle
    /\ cur' = "main"
    /\ UNCHANGED << status, wake, tpc, handles, data, gather, fusionLocals, console,
                    blinker, now, readMs, cycle, task_cycle, bus_fault, init_failed >>
    /\ UNCHANGED motorVars

\* Lines 204-213: print the vector if there is one, then sleep 200 ms.  The
\* locals of the finished call are gone, and fused_data is not read again.
main_report_sleep ==
    /\ MainRuns /\ mpc = "report"
    /\ console' = IF fused_data # None THEN << "Fused Norm:", "X=", "Y=", "Z=" >> ELSE console
    /\ Sleep("main", FUSION_SLEEP_MS)
    /\ mpc' = "call"
    /\ int_data' = Unset /\ ext_data' = Unset /\ fused_data' = Unset
    /\ bus_fault' = FALSE
    /\ UNCHANGED << tpc, handles, data, gather, blinker, now,
                    readMs, cycle, task_cycle, done_cycle, init_failed >>
    /\ UNCHANGED motorVars

\* Lines 217-223: main() is over (it returned, or an exception left it), so
\* uasyncio.run is over and the program ends.
run_ends ==
    /\ MainRuns /\ mpc \in {"returned", "raised"}
    /\ cur' = "exit"
    /\ status' = [status EXCEPT !["main"] = "done"]
    /\ console' = << "Loop stopped." >>
    /\ UNCHANGED << wake, mpc, tpc, handles, data, gather, fusionLocals, fused_data, blinker,
                    now, readMs, cycle, task_cycle, done_cycle, bus_fault, init_failed >>
    /\ UNCHANGED motorVars

\* --------------------------------------------------------- motorContol.py
\* Lines 39-42: the speed clamped to 0..100.
ClampSpeed(speed) == IF speed < 0 THEN 0 ELSE IF speed > 100 THEN 100 ELSE speed

\* Mutant of motorControl_in2: the stop branch drives the channel HIGH (the
\* alternative of lines 62-63).
motorControl_in2_coast(speed, direction) ==
    IF direction = -1 THEN speed ELSE IF direction = 1 THEN 0 ELSE 100

\* Lines 44-57: the duty cycle motorControl writes to AIN1, then to AIN2.
motorControl_in1(speed, direction) == IF direction = 1 THEN speed ELSE 0
motorControl_in2(speed, direction) == IF direction = -1 THEN speed ELSE 0

\* Lines 70-89: the four phases of one pass: speed, direction, seconds slept.
Phases == << << 60, 1, 2 >>, << 0, 0, 1 >>, << 90, -1, 2 >>, << 0, 0, 1 >> >>

\* Line 93: the arguments of the handler's motorControl call.
HandlerArgs == << 0, 0 >>

accelFrame == UNCHANGED accelVars

\* The print before a motorControl call (lines 72, 77, 82, 87; line 92 in
\* the handler), then the call binds its arguments.
motor_print_call ==
    /\ mo_mode \in {"loop", "handler"} /\ mo_pc = "print"
    /\ LET args == IF mo_mode = "loop" THEN Phases[mo_phase] ELSE HandlerArgs
       IN mo_speed' = args[1] /\ mo_direction' = args[2]
    /\ mo_pc' = "clamp"
    /\ UNCHANGED << mo_phase, mo_sleep, mo_int_at, pwm_in1, pwm_in2, mo_mode, mo_pass, interrupts >>
    /\ accelFrame

\* Lines 39-42.
motorControl_clamp ==
    /\ mo_mode \in {"loop", "handler"} /\ mo_pc = "clamp"
    /\ mo_speed' = ClampSpeed(mo_speed)
    /\ mo_pc' = "write1"
    /\ UNCHANGED << mo_phase, mo_direction, mo_sleep, mo_int_at, pwm_in1, pwm_in2, mo_mode,
                    mo_pass, interrupts >>
    /\ accelFrame

\* The first pulse_percent of the branch taken (lines 47, 51, 56).
motorControl_write1 ==
    /\ mo_mode \in {"loop", "handler"} /\ mo_pc = "write1"
    /\ pwm_in1' = motorControl_in1(mo_speed, mo_direction)
    /\ mo_pc' = "write2"
    /\ UNCHANGED << mo_phase, mo_speed, mo_direction, mo_sleep, mo_int_at, pwm_in2, mo_mode,
                    mo_pass, interrupts >>
    /\ accelFrame

\* The second pulse_percent (lines 48, 52, 57); the loop goes on to its
\* time.sleep, the handler to its last print.
motorControl_write2 ==
    /\ mo_mode \in {"loop", "handler"} /\ mo_pc = "write2"
    /\ pwm_in2' = motorControl_in2(mo_speed, mo_direction)
    /\ IF mo_mode = "loop"
       THEN mo_pc' = "sleep" /\ mo_sleep' = Phases[mo_phase][3]
       ELSE mo_pc' = "done" /\ UNCHANGED mo_sleep
    /\ UNCHANGED << mo_phase, mo_speed, mo_direction, mo_int_at, pwm_in1, mo_mode, mo_pass,
                    interrupts >>
    /\ accelFrame

\* time.sleep (lines 74, 79, 84, 89), one second at a time; after the last
\* second the loop goes to its next phase.
motor_sleep ==
    /\ mo_mode = "loop" /\ mo_pc = "sleep"
    /\ IF mo_sleep > 1
       THEN /\ mo_sleep' = mo_sleep - 1
            /\ UNCHANGED << mo_pc, mo_phase, mo_pass >>
       ELSE /\ mo_sleep' = 0
            /\ mo_pc' = "print"
            /\ mo_phase' = IF mo_phase = Len(Phases) THEN 1 ELSE mo_phase + 1
            /\ mo_pass' = IF mo_phase = Len(Phases) THEN Min(MaxPass, mo_pass + 1) ELSE mo_pass
    /\ UNCHANGED << mo_speed, mo_direction, mo_int_at, pwm_in1, pwm_in2, mo_mode, interrupts >>
    /\ accelFrame

\* The operator's interrupt.  Inside the try block (lines 69-89) it is
\* caught at line 91; inside the handler itself nothing catches it and the
\* program ends there.
KeyboardInterrupt ==
    /\ interrupts < MaxInterrupts
    /\ \/ /\ mo_mode = "loop"
          /\ mo_mode' = "handler"
          /\ mo_pc' = "print"
          /\ mo_int_at' = << mo_phase, mo_pc >>
       \/ /\ mo_mode = "handler"
          /\ mo_mode' = "exited"
          /\ UNCHANGED << mo_pc, mo_int_at >>
    /\ interrupts' = interrupts + 1
    /\ UNCHANGED << mo_phase, mo_speed, mo_direction, mo_sleep, pwm_in1, pwm_in2, mo_pass >>
    /\ accelFrame

\* Line 94: print("Done."), and the program ends.
motor_done ==
    /\ mo_mode = "handler" /\ mo_pc = "done"
    /\ mo_mode' = "exited"
    /\ UNCHANGED << mo_pc, mo_phase, mo_speed, mo_direction, mo_sleep, mo_int_at, pwm_in1,
                    pwm_in2, mo_pass, interrupts >>
    /\ accelFrame

\* ------------------------------------------------------ initial states
\* motorContol.py after lines 12-23 and 67: both channels at 0 %, about to
\* enter the loop.
MotorIdle ==
    /\ mo_pc = "print" /\ mo_phase = 1 /\ mo_speed = 0 /\ mo_direction = 0 /\ mo_sleep = 0
    /\ mo_int_at = << 0, "" >>
    /\ pwm_in1 = 0 /\ pwm_in2 = 0
    /\ mo_mode = "loop" /\ mo_pass = 0 /\ interrupts = 0

AccelCommon ==
    /\ cur = "main"
    /\ status = [t \in Tasks |-> IF t = "main" THEN "queued" ELSE "none"]
    /\ wake = [t \in Tasks |-> 0]
    /\ tpc = [t \in ReadTasks |-> "read"]
    /\ data = [t \in ReadTasks |-> Unset]
    /\ gather_pending = 0
    /\ gather_exc = None
    /\ int_data = Unset /\ ext_data = Unset /\ fused_data = Unset
    /\ console = << >>
    /\ led = FALSE
    /\ toggles = 0
    /\ cycle = 0
    /\ task_cycle = [t \in ReadTasks |-> 0]
    /\ done_cycle = 0
    /\ bus_fault = FALSE
    /\ init_failed = FALSE

\* uasyncio.run(main()): main() starts with nothing initialised (lines 166-168).
Init ==
    /\ AccelCommon
    /\ mpc = "init_internal"
    /\ internal_accel = None /\ has_filtered_method = FALSE /\ external_mpu = None
    /\ now = 0
    /\ readMs \in ReadMsChoices
    /\ MotorIdle

AccelNext ==
    \/ idle
    \/ main_init_internal \/ main_init_i2c \/ main_init_mpu \/ main_create_blink
    \/ main_call_gather \/ fusion_after_gather \/ fusion_normalize \/ main_report_sleep
    \/ run_ends
    \/ get_internal_data_async_read \/ get_internal_data_async_return
    \/ get_external_data_async_read \/ get_external_data_async_return
    \/ blink_led

Next == AccelNext

Spec == Init /\ [][Next]_vars

\* The event loop never stops while something can run.
FairSpec == Spec /\ WF_vars(Next)

\* The fusion loop of lines 198-213 run on handles given from outside: each
\* absent or a device with one fixed reading.  No run is observed (the clock
\* stands at RunMs) and no blinker is created.
InitFuse ==
    /\ AccelCommon
    /\ mpc = "call"
    /\ internal_accel \in {None} \cup StubAccels
    /\ has_filtered_method \in BOOLEAN
    /\ external_mpu \in {None} \cup StubMPUs
    /\ now = RunMs
    /\ readMs = 1
    /\ MotorIdle

NextFuse ==
    \/ idle
    \/ main_call_gather \/ fusion_after_gather \/ fusion_normalize \/ main_report_sleep
    \/ get_internal_data_async_read \/ get_internal_data_async_return
    \/ get_external_data_async_read \/ get_external_data_async_return

SpecFuse == InitFuse /\ [][NextFuse]_vars

\* motorContol.py on its own board; the accelerometer program is not running.
InitMotor ==
    /\ MotorIdle
    /\ AccelCommon
    /\ mpc = "init_internal"
    /\ internal_accel = None /\ has_filtered_method = FALSE /\ external_mpu = None
    /\ now = 0
    /\ readMs = 0

NextMotor ==
    \/ motor_print_call \/ motorControl_clamp \/ motorControl_write1 \/ motorControl_write2
    \/ motor_sleep \/ KeyboardInterrupt \/ motor_done

SpecMotor == InitMotor /\ [][NextMotor]_vars

\* ================================================================= claims
IsDict(v) == v.tag = "dict"
InUnit(v) == -DEN <= v /\ v <= DEN

\* C1: every component of a fused vector lies in [-1.0, 1.0], whatever the
\* magnitudes of the two samples.
C1_ClampInvariant ==
    IsDict(fused_data) =>
        InUnit(fused_data.norm_x) /\ InUnit(fused_data.norm_y) /\ InUnit(fused_data.norm_z)

\* A vector fused from samples far outside the sensors' ranges, clamped at
\* both ends.
C1_Witness ==
    /\ mpc = "report" /\ IsDict(fused_data)
    /\ int_data.accel_x = 5000 /\ int_data.accel_y = -3000
    /\ ext_data.accel_y = 0
    /\ fused_data.norm_x = DEN /\ fused_data.norm_y = -DEN

\* C2: a cycle with an absent sample (absent handle) ends with None, never
\* with a vector and never inside the normalisation; a vector is returned
\* only when both samples are present.
C2_NoPartialFusion ==
    /\ mpc \in {"normalize", "raised"} => IsDict(int_data) /\ IsDict(ext_data)
    /\ mpc = "report" =>
         /\ (internal_accel = None \/ external_mpu = None \/ int_data = None \/ ext_data = None)
               => fused_data = None
         /\ fused_data # None => IsDict(fused_data) /\ IsDict(int_data) /\ IsDict(ext_data)

\* The internal handle is absent, the external sample is there, the call ends
\* with None.
C2_Witness ==
    /\ mpc = "report" /\ internal_accel = None
    /\ int_data = None /\ IsDict(ext_data) /\ fused_data = None

\* C3 (as claimed): a cycle whose MPU-6050 bus transaction raised OSError ends
\* with None, not with a vector.
C3_BusFaultGivesNoVector == (mpc = "report" /\ bus_fault) => fused_data = None

\* A cycle is faulty at the adapter boundary: a read raised into gather, or
\* an adapter returned None.
CycleFault == gather_exc # None \/ int_data = None \/ ext_data = None
LoopRunning == status["blink"] # "none"

C5_TogglesAbout20 == now = RunMs => toggles \in 19 .. 21

\* C5 (amended): the blinker toggles again and again for every read duration,
\* and toggles 19 to 21 times in the 10 seconds when a read blocks for at
\* most 20 ms.
C5_NoStarvation ==
    /\ [](now = RunMs /\ readMs <= 20 => toggles \in 19 .. 21)
    /\ \A b \in BOOLEAN : (LoopRunning /\ led = b) ~> (led # b)

\* The run is over, reads block for 20 ms, the blinker toggled 19 to 21 times.
C5_Witness == now = RunMs /\ readMs = 20 /\ toggles \in 19 .. 21 /\ mpc = "gather"

InFlight(t) == status[t] = "queued"

\* C6: normalisation starts only after both reads of the cycle have ended;
\* reads are issued only when no read is in flight and the result of the
\* cycle before is computed.
C6_NoOverlap ==
    /\ [](mpc = "normalize" =>
             \A t \in ReadTasks : status[t] = "done" /\ task_cycle[t] = cycle)
    /\ [](\A t \in ReadTasks : InFlight(t) => task_cycle[t] = cycle)
    /\ [][cycle' # cycle =>
             /\ \A t \in ReadTasks : ~InFlight(t)
             /\ done_cycle = cycle
             /\ \A t \in ReadTasks : InFlight(t)' /\ task_cycle'[t] = cycle']_vars

\* The result (None) of a cycle whose internal read raised is computed while
\* the external wrapper of that cycle is still in flight.
C6_Witness ==
    /\ mpc = "report" /\ gather_exc # None /\ done_cycle = cycle
    /\ InFlight("ext") /\ toggles >= 2

\* C7 (as claimed): when the internal read raised, the printed error names
\* the internal source.
C7_ErrorNamesSource ==
    (mpc = "report" /\ IsDict(data["ext"]) /\ gather_exc # None)
        => \E i \in DOMAIN console : console[i] = "internal"

\* C8: after a failed bring-up there is no blinker, no read wrapper, no
\* fusion cycle and no toggle, and main() is at its `return`.
C8_FatalInitNeverSchedules ==
    init_failed =>
        /\ mpc = "returned"
        /\ \A t \in {"blink", "int", "ext"} : status[t] = "none"
        /\ cycle = 0 /\ toggles = 0 /\ ~led /\ now = 0

\* Bring-up failed after the internal accelerometer was created, and the
\* program has ended.
C8_Witness == init_failed /\ cur = "exit" /\ internal_accel # None /\ external_mpu = None

\* C9: after one operator interrupt, the program exits with both channels at 0 %.
C9_SafeStateOnInterrupt ==
    (mo_mode = "exited" /\ interrupts = 1) => pwm_in1 = 0 /\ pwm_in2 = 0

\* The interrupt arrived between the two writes of the brake after reverse
\* (AIN1 already 0, AIN2 still 90), and the program has exited.
C9_Witness ==
    /\ mo_mode = "exited" /\ interrupts = 1
    /\ mo_int_at = << 4, "write2" >>

\* (i/d + e/2) / 2 clamped, as one quotient: (2i + e*d) / (4d).
ExpectedAxis(i, d, e) == Max(-DEN, Min(DEN, (2 * i * DEN + e * d) \div (4 * d)))

\* C10: each fused axis is clamp((i/d + e/2)/2), d = 2 for 'g-force' and 32
\* otherwise; (4,0,0) 'g-force' with (1,0,0) gives X = 1.0, (8,0,0) 'raw' with
\* (0,0,0) gives X = 0.125.
C10_NormalizationCorrect ==
    IsDict(fused_data) =>
        LET d == IF int_data.units = "g-force" THEN 2 ELSE 32
        IN /\ fused_data.norm_x = ExpectedAxis(int_data.accel_x, d, ext_data.accel_x)
           /\ fused_data.norm_y = ExpectedAxis(int_data.accel_y, d, ext_data.accel_y)
           /\ fused_data.norm_z = ExpectedAxis(int_data.accel_z, d, ext_data.accel_z)
           /\ (int_data.accel_x = 4 /\ int_data.units = "g-force" /\ ext_data.accel_x = DEN)
                 => fused_data.norm_x = DEN
           /\ (int_data.accel_x = 8 /\ int_data.units = "raw" /\ ext_data.accel_x = 0)
                 => 8 * fused_data.norm_x = DEN

\* Internal (8,0,0) 'raw' with external (0,0,0) fused to X = 0.125.
C10_Witness ==
    /\ IsDict(fused_data)
    /\ int_data.units = "raw"
    /\ << int_data.accel_x, int_data.accel_y, int_data.accel_z >> = << 8, 0, 0 >>
    /\ << ext_data.accel_x, ext_data.accel_y, ext_data.accel_z >> = << 0, 0, 0 >>
    /\ 8 * fused_data.norm_x = DEN

====
